---- MODULE Spec2Model ----
(***************************************************************************)
(* Model of the time-based scheduler: SPMCCircularBuffer                   *)
(* (include/scheduler/circular_buffer.h), ThreadPool (include/threadpool.h)*)
(* and Scheduler (scheduler.h, second half of circular_buffer.h).          *)
(*                                                                         *)
(* Every thread is a record th[t] = [pc, snap, idx, val]; one action is    *)
(* one atomic step of the code (an atomic load, a fetch_add, a slot        *)
(* access, a lock operation).  Three buffers exist: the scheduler's        *)
(* ingress buffer, the pool's queue, and a free-standing buffer driven by  *)
(* one producer and several consumers (specification SpecBuf).             *)
(*                                                                         *)
(* Counters are size_t in the code; `int old_read` (line 83) narrows the   *)
(* snapshot, which is the identity below 2^31: the counters of the model   *)
(* stay far below that.                                                    *)
(***************************************************************************)
EXTENDS Integers, Sequences, FiniteSets, TLC

\* ---------------------------------------------------------------- bounds
\* MaxTasks: tasks the controlling thread may Add; MaxClock: the wall clock
\* runs 0..MaxClock; MaxPush: values the free-standing producer pushes;
\* buffer_size, threads_count: the arguments of Scheduler(buffer_size,
\* threads_count); the free-standing buffer has capacity buffer_size or
\* buffer_size + 1.
MaxTasks == 2
MaxClock == 1
MaxPush == 3
buffer_size == 1
threads_count == 2

VARIABLES
    bufs,                \* buffer id -> SPMCCircularBuffer state
    th,                  \* thread id -> [pc, snap, idx, val]
    tasks_,              \* Scheduler::tasks_, the pending list
    it,                  \* EventLoop: position of the scan iterator
    to_remove,           \* EventLoop: stack of positions to erase
    break_,              \* Scheduler::break_
    pool_break_,         \* ThreadPool::break_
    event_loop_thread_,  \* TRUE iff the loop thread handle is joinable
    threads_,            \* ThreadPool::threads_: sequence of handles
    now,                 \* wall clock (system_clock::now as time_t)
    added,               \* number of Add calls made so far
    due,                 \* task id -> timestamp given to Add (history)
    handed,              \* task id -> number of AddTask calls (history)
    scan_handed,         \* ids handed to the pool in the current scan (history)
    executed,            \* task id -> number of invocations (history)
    process,             \* "running", or how the process died
    popped,              \* free-standing buffer: claimed index -> value returned
    discipline           \* free-standing buffer: "Pop" or "PopUnsafe" consumers

vars == <<bufs, th, tasks_, it, to_remove, break_, pool_break_,
          event_loop_thread_, threads_, now, added, due, handed, scan_handed, executed,
          process, popped, discipline>>

schedVars == <<tasks_, it, to_remove, break_, pool_break_, event_loop_thread_,
               threads_, now, added, due, handed, scan_handed, executed>>

\* ------------------------------------------------------------ identities
Ingress == "tasks_buffer_"          \* Scheduler::tasks_buffer_
PoolQ == "pool_.tasks_buffer_"      \* ThreadPool::tasks_buffer_
FreeQ == "buffer"                   \* a free-standing SPMCCircularBuffer<Fn>
BufIds == {Ingress, PoolQ, FreeQ}

Main == <<"main", 0>>               \* the controlling / producing thread
Loop == <<"loop", 0>>               \* Scheduler::event_loop_thread_
WorkerId(i) == <<"worker", i>>
Workers == {WorkerId(i) : i \in 1..threads_count}
Producer == <<"producer", 0>>       \* free-standing buffer's single producer
Consumers == {<<"consumer", i>> : i \in 1..threads_count}
Threads == {Main, Loop, Producer} \cup Workers \cup Consumers

Free == <<"free", 0>>               \* mutex_read_ not owned
TaskIds == 1..MaxTasks
EmptyFn == 0                        \* an empty std::function
NoTask == [timestamp |-> 0, func |-> EmptyFn]   \* a value-initialised Task
\* Locals are reset when they go out of scope, so that states differing
\* only in dead locals coincide.
NoVal(t) == IF t = Main THEN NoTask ELSE EmptyFn

\* ----------------------------------------------------- SPMCCircularBuffer
\* The constructor: value-initialised slots, both counters 0, mutex free.
\* claim / torn record the data race on a slot: claim is the logical index
\* a consumer has claimed (fetch_add) and not yet read, torn holds the value
\* the producer overwrote in that slot meanwhile.
NewBuffer(size, init) ==
    [read_counter_ |-> 0, write_counter_ |-> 0,
     buf_ |-> [s \in 0..(size - 1) |-> init],
     max_size_ |-> size, mutex_read_ |-> Free,
     claim |-> -1, torn |-> <<>>]

\* What a slot holds after its element was moved out of it.
MovedFrom(b, v) == IF b = Ingress THEN [v EXCEPT !.func = EmptyFn] ELSE EmptyFn

Empty_Never(q) == FALSE
Empty(q) == q.read_counter_ = q.write_counter_

FullCheck_NoGuard(q) == FALSE
FullCheck_OffByOne(q) ==
    q.write_counter_ # 0 /\ q.write_counter_ - q.read_counter_ = q.max_size_ + 1
FullCheck(q) ==
    q.write_counter_ # 0 /\ q.write_counter_ - q.read_counter_ = q.max_size_

\* The logical contents: the values of indices read_counter_..write_counter_-1.
Window(q) ==
    [k \in 1..(q.write_counter_ - q.read_counter_) |->
        q.buf_[(q.read_counter_ + k - 1) % q.max_size_]]

\* --- EmplacePush, one step per atomic access
\* line 82: the full check
PushCheck(t, b) ==
    /\ th[t].pc = "push_check"
    /\ th' = [th EXCEPT ![t].pc =
                 IF FullCheck(bufs[b]) THEN "push_snap" ELSE "push_write"]
    /\ UNCHANGED bufs

\* lines 83-84: old_read = read_counter_, then the modulo comparison
PushSnap(t, b) ==
    /\ th[t].pc = "push_snap"
    /\ LET q == bufs[b]
           old_read == q.read_counter_
       IN th' = [th EXCEPT ![t].snap = IF q.write_counter_ % q.max_size_
                                          = old_read % q.max_size_
                                       THEN old_read ELSE 0,
                           ![t].pc = IF q.write_counter_ % q.max_size_
                                        = old_read % q.max_size_
                                     THEN "push_wait" ELSE "push_write"]
    /\ UNCHANGED bufs

\* line 85: read_counter_.wait(old_read) returns once the value differs
PushWait(t, b) ==
    /\ th[t].pc = "push_wait"
    /\ bufs[b].read_counter_ # th[t].snap
    /\ th' = [th EXCEPT ![t].pc = "push_write", ![t].snap = 0]
    /\ UNCHANGED bufs

\* line 88: the slot is written (not re-checked after the wait)
PushWrite(t, b) ==
    /\ th[t].pc = "push_write"
    /\ LET q == bufs[b]
           s == q.write_counter_ % q.max_size_
           racing == q.claim # -1 /\ q.claim % q.max_size_ = s
       IN bufs' = [bufs EXCEPT ![b].buf_[s] = th[t].val,
                               ![b].torn = IF racing THEN <<q.buf_[s]>> ELSE @]
    /\ th' = [th EXCEPT ![t].pc = "push_inc"]

\* lines 89-90: write_counter_.fetch_add(1); notify_all
PushInc(t, b, next) ==
    /\ th[t].pc = "push_inc"
    /\ bufs' = [bufs EXCEPT ![b].write_counter_ = @ + 1]
    /\ th' = [th EXCEPT ![t].pc = next, ![t].val = NoVal(t)]

EmplacePush(t, b, next) ==
    \/ PushCheck(t, b)
    \/ PushSnap(t, b)
    \/ PushWait(t, b)
    \/ PushWrite(t, b)
    \/ PushInc(t, b, next)

\* --- the claim and the slot read shared by TryPopFor (136) and Pop (159)
\* read_counter_.fetch_add(1): the index is claimed before the slot is read
ClaimIndex(t, b, next) ==
    /\ bufs' = [bufs EXCEPT ![b].read_counter_ = @ + 1,
                            ![b].claim = bufs[b].read_counter_]
    /\ th' = [th EXCEPT ![t].idx = bufs[b].read_counter_, ![t].pc = next]

\* T element = std::move_if_noexcept(buf_[idx % max_size_]); notify; return
\* (the lock is released on return).  If the producer wrote the slot after
\* the claim, the read races with that write.  The move copies the slot's
\* fields and then clears the slot's manager and invoker, the write stores
\* the fields one by one, so the outcomes are:
\*   old value read, slot keeps the new value  (read finished first);
\*   old value read, slot left moved-from      (clearing landed on the new);
\*   new value read, slot left moved-from      (write finished first);
\*   new value read, slot keeps the new value  (callables of one closure
\*     type share manager and invoker: the new functor is copied, the old
\*     manager and invoker are cleared, the new ones are stored after).
MoveOut(t, b, next) ==
    LET q == bufs[b]
        s == th[t].idx % q.max_size_
        raced == q.torn # <<>>
    IN \E e \in (IF raced THEN {q.torn[1], q.buf_[s]} ELSE {q.buf_[s]}),
          rest \in (IF raced THEN {MovedFrom(b, q.buf_[s]), q.buf_[s]}
                             ELSE {MovedFrom(b, q.buf_[s])}) :
          /\ bufs' = [bufs EXCEPT ![b].buf_[s] = rest,
                                  ![b].claim = -1,
                                  ![b].torn = <<>>,
                                  ![b].mutex_read_ = Free]
          /\ th' = [th EXCEPT ![t].val = e, ![t].idx = 0, ![t].pc = next]

\* --- TryPopFor
\* lines 126-130: try_lock_for; the timeout elapses only while another
\* thread owns the mutex
TryLock(t, b, onNone) ==
    /\ th[t].pc = "try_lock"
    /\ \/ /\ bufs[b].mutex_read_ = Free
          /\ bufs' = [bufs EXCEPT ![b].mutex_read_ = t]
          /\ th' = [th EXCEPT ![t].pc = "try_check"]
       \/ /\ bufs[b].mutex_read_ # Free
          /\ th' = [th EXCEPT ![t].pc = onNone]
          /\ UNCHANGED bufs

\* lines 132-136: empty -> nullopt (lock released), else fetch_add
TryCheck(t, b, onNone) ==
    /\ th[t].pc = "try_check"
    /\ IF bufs[b].read_counter_ >= bufs[b].write_counter_
       THEN /\ bufs' = [bufs EXCEPT ![b].mutex_read_ = Free]
            /\ th' = [th EXCEPT ![t].pc = onNone]
       ELSE ClaimIndex(t, b, "try_read")

\* lines 136-138
TryRead(t, b, onValue) ==
    /\ th[t].pc = "try_read"
    /\ MoveOut(t, b, onValue)

TryPopFor(t, b, onValue, onNone) ==
    \/ TryLock(t, b, onNone)
    \/ TryCheck(t, b, onNone)
    \/ TryRead(t, b, onValue)

\* --- Pop
\* line 150: lock_guard
PopLock(t, b) ==
    /\ th[t].pc = "pop_lock"
    /\ bufs[b].mutex_read_ = Free
    /\ bufs' = [bufs EXCEPT ![b].mutex_read_ = t]
    /\ th' = [th EXCEPT ![t].pc = "pop_check"]

\* line 152
PopCheck(t, b) ==
    /\ th[t].pc = "pop_check"
    /\ th' = [th EXCEPT ![t].pc =
                 IF bufs[b].read_counter_ >= bufs[b].write_counter_
                 THEN "pop_snap" ELSE "pop_claim"]
    /\ UNCHANGED bufs

\* lines 153-154: old_write = write_counter_.load()
PopSnap(t, b) ==
    /\ th[t].pc = "pop_snap"
    /\ LET old_write == bufs[b].write_counter_
       IN th' = [th EXCEPT ![t].snap = IF bufs[b].read_counter_ >= old_write
                                       THEN old_write ELSE 0,
                           ![t].pc = IF bufs[b].read_counter_ >= old_write
                                     THEN "pop_wait" ELSE "pop_claim"]
    /\ UNCHANGED bufs

\* line 155: write_counter_.wait(old_write)
PopWait(t, b) ==
    /\ th[t].pc = "pop_wait"
    /\ bufs[b].write_counter_ # th[t].snap
    /\ th' = [th EXCEPT ![t].pc = "pop_claim", ![t].snap = 0]
    /\ UNCHANGED bufs

\* line 159: fetch_add
PopClaim(t, b) ==
    /\ th[t].pc = "pop_claim"
    /\ ClaimIndex(t, b, "pop_read")

\* lines 159-161
PopRead(t, b, onValue) ==
    /\ th[t].pc = "pop_read"
    /\ MoveOut(t, b, onValue)

Pop(t, b, onValue) ==
    \/ PopLock(t, b)
    \/ PopCheck(t, b)
    \/ PopSnap(t, b)
    \/ PopWait(t, b)
    \/ PopClaim(t, b)
    \/ PopRead(t, b, onValue)

\* --- PopUnsafe (lines 104-113): no lock; the slot is read before the index
\* is released, so one step stands for the read and the fetch_add
PopUnsafeAborts_Never(q) == FALSE
PopUnsafeAborts(q) == q.read_counter_ >= q.write_counter_
PopUnsafeElement(q) == q.buf_[q.read_counter_ % q.max_size_]
PopUnsafeBuffer(b, q) ==
    [q EXCEPT !.buf_[q.read_counter_ % q.max_size_] = MovedFrom(b, @),
              !.read_counter_ = @ + 1]

\* ------------------------------------------------------------ frames
Alive == process = "running"

bufClientVars == <<process, discipline>>

\* ---------------------------------------------------------------- clock
Tick ==
    /\ Alive
    /\ now < MaxClock
    /\ now' = now + 1
    /\ UNCHANGED <<bufs, th, tasks_, it, to_remove, break_, pool_break_,
                   event_loop_thread_, threads_, added, due, handed, scan_handed, executed,
                   process, popped, discipline>>

\* ------------------------------------------------------------- Scheduler
IdleThread(v) == [pc |-> "none", snap |-> 0, idx |-> 0, val |-> v]

\* Scheduler::Add (lines 250-255): builds the Task and calls EmplacePush
Add ==
    /\ Alive
    /\ th[Main].pc = "idle"
    /\ added < MaxTasks
    /\ \E ts \in 0..MaxClock :
          /\ th' = [th EXCEPT ![Main].pc = "push_check",
                              ![Main].val = [timestamp |-> ts, func |-> added + 1]]
          /\ due' = [due EXCEPT ![added + 1] = ts]
    /\ added' = added + 1
    /\ UNCHANGED <<bufs, tasks_, it, to_remove, break_, pool_break_,
                   event_loop_thread_, threads_, now, handed, scan_handed, executed,
                   process, popped, discipline>>

AddPush ==
    /\ Alive
    /\ EmplacePush(Main, Ingress, "idle")
    /\ UNCHANGED <<schedVars, process, popped, discipline>>

\* Scheduler::Run, line 281: break_ = false
Run ==
    /\ Alive
    /\ th[Main].pc = "idle"
    /\ break_' = FALSE
    /\ th' = [th EXCEPT ![Main].pc = "run_spawn"]
    /\ UNCHANGED <<bufs, tasks_, it, to_remove, pool_break_,
                   event_loop_thread_, threads_, now, added, due, handed, scan_handed,
                   executed, process, popped, discipline>>

\* line 282: event_loop_thread_ = std::thread(...); move-assigning to a
\* joinable std::thread calls std::terminate
RunSpawn ==
    /\ Alive
    /\ th[Main].pc = "run_spawn"
    /\ IF event_loop_thread_
       THEN /\ process' = "terminate: std::thread assigned while joinable"
            /\ UNCHANGED <<th, event_loop_thread_>>
       ELSE /\ event_loop_thread_' = TRUE
            /\ th' = [th EXCEPT ![Main].pc = "run_pool", ![Loop].pc = "loop_cond"]
            /\ UNCHANGED process
    /\ UNCHANGED <<bufs, tasks_, it, to_remove, break_, pool_break_, threads_,
                   now, added, due, handed, scan_handed, executed, popped, discipline>>

\* ThreadPool::Run (threadpool.h 80-86): break_ = false, one handle per worker
SpawnWorkers(ts) ==
    ts \o [i \in 1..threads_count |-> [worker |-> WorkerId(i), joinable |-> TRUE]]

PoolRun ==
    /\ Alive
    /\ th[Main].pc = "run_pool"
    /\ pool_break_' = FALSE
    /\ threads_' = SpawnWorkers(threads_)
    /\ th' = [t \in Threads |->
                 IF t = Main THEN [th[t] EXCEPT !.pc = "idle"]
                 ELSE IF t \in Workers THEN [th[t] EXCEPT !.pc = "w_cond"]
                 ELSE th[t]]
    /\ UNCHANGED <<bufs, tasks_, it, to_remove, break_, event_loop_thread_,
                   now, added, due, handed, scan_handed, executed, process, popped,
                   discipline>>

\* Scheduler::Shutdown, line 266: break_ = true
Shutdown ==
    /\ Alive
    /\ th[Main].pc = "idle"
    /\ break_' = TRUE
    /\ th' = [th EXCEPT ![Main].pc = "sd_join"]
    /\ UNCHANGED <<bufs, tasks_, it, to_remove, pool_break_,
                   event_loop_thread_, threads_, now, added, due, handed, scan_handed,
                   executed, process, popped, discipline>>

\* line 267: the joinable() test guarding join()
JoinGuard_Missing(joinable) == TRUE
JoinGuard(joinable) == joinable

\* lines 267-269: join the loop thread if joinable; join() on a thread that
\* is not joinable throws std::system_error, which nothing catches
SchedulerJoin ==
    /\ Alive
    /\ th[Main].pc = "sd_join"
    /\ IF JoinGuard(event_loop_thread_)
       THEN IF event_loop_thread_
            THEN /\ th[Loop].pc = "done"
                 /\ event_loop_thread_' = FALSE
                 /\ th' = [th EXCEPT ![Main].pc = "sd_pool", ![Loop].pc = "none"]
                 /\ UNCHANGED process
            ELSE /\ process' = "terminate: join of a thread that is not joinable"
                 /\ UNCHANGED <<th, event_loop_thread_>>
       ELSE /\ th' = [th EXCEPT ![Main].pc = "sd_pool"]
            /\ UNCHANGED <<event_loop_thread_, process>>
    /\ UNCHANGED <<bufs, tasks_, it, to_remove, break_, pool_break_, threads_,
                   now, added, due, handed, scan_handed, executed, popped, discipline>>

\* ThreadPool::Shutdown, threadpool.h line 95: break_ = true
PoolShutdown ==
    /\ Alive
    /\ th[Main].pc = "sd_pool"
    /\ pool_break_' = TRUE
    /\ th' = [th EXCEPT ![Main].pc = "sd_pjoin"]
    /\ UNCHANGED <<bufs, tasks_, it, to_remove, break_, event_loop_thread_,
                   threads_, now, added, due, handed, scan_handed, executed, process,
                   popped, discipline>>

\* threadpool.h line 101: threads_.clear()
ClearThreads_Skipped(ts) == [i \in DOMAIN ts |-> [ts[i] EXCEPT !.joinable = FALSE]]
ClearThreads(ts) == <<>>

\* threadpool.h lines 97-101: join every handle, then clear the vector;
\* joining a handle that was joined before throws std::system_error
PoolJoin ==
    /\ Alive
    /\ th[Main].pc = "sd_pjoin"
    /\ IF \E i \in DOMAIN threads_ : ~threads_[i].joinable
       THEN /\ process' = "terminate: join of a thread that is not joinable"
            /\ UNCHANGED <<th, threads_>>
       ELSE /\ \A i \in DOMAIN threads_ : th[threads_[i].worker].pc = "done"
            /\ threads_' = ClearThreads(threads_)
            /\ th' = [t \in Threads |->
                         IF t = Main THEN [th[t] EXCEPT !.pc = "idle"]
                         ELSE IF t \in Workers THEN [th[t] EXCEPT !.pc = "none"]
                         ELSE th[t]]
            /\ UNCHANGED process
    /\ UNCHANGED <<bufs, tasks_, it, to_remove, break_, pool_break_,
                   event_loop_thread_, now, added, due, handed, scan_handed, executed,
                   popped, discipline>>

\* --- Scheduler::EventLoop
\* line 300: while (!break_ || !tasks_.empty() || !tasks_buffer_.Empty())
LoopCondition_StopFlagOnly == ~break_
LoopCondition == ~break_ \/ tasks_ # <<>> \/ ~Empty(bufs[Ingress])

LoopCond ==
    /\ Alive
    /\ th[Loop].pc = "loop_cond"
    /\ th' = [th EXCEPT ![Loop].pc =
                 IF LoopCondition THEN "loop_drain" ELSE "done"]
    /\ UNCHANGED <<bufs, schedVars, process, popped, discipline>>

\* line 302: tasks_.push_front
PushFront_AtBack(list, task) == Append(list, task)
PushFront(list, task) == <<task>> \o list

\* lines 301-305: at most one task is drained and put at the list head
LoopDrain ==
    /\ Alive
    /\ th[Loop].pc = "loop_drain"
    /\ LET q == bufs[Ingress]
       IN IF ~Empty(q)
          THEN IF PopUnsafeAborts(q)
               THEN /\ process' = "abort: PopUnsafe on an empty buffer"
                    /\ UNCHANGED <<bufs, th, tasks_, it, to_remove>>
               ELSE /\ tasks_' = PushFront(tasks_, PopUnsafeElement(q))
                    /\ bufs' = [bufs EXCEPT ![Ingress] = PopUnsafeBuffer(Ingress, q)]
                    /\ th' = [th EXCEPT ![Loop].pc = "loop_scan"]
                    /\ it' = 1
                    /\ to_remove' = <<>>
                    /\ UNCHANGED process
          ELSE /\ th' = [th EXCEPT ![Loop].pc = "loop_scan"]
               /\ it' = 1
               /\ to_remove' = <<>>
               /\ UNCHANGED <<bufs, tasks_, process>>
    /\ UNCHANGED <<break_, pool_break_, event_loop_thread_, threads_, now,
                   added, due, handed, scan_handed, executed, popped, discipline>>

\* line 311: the due test
IsDue_Inverted(task, timestamp_now) == task.timestamp >= timestamp_now
IsDue(task, timestamp_now) == task.timestamp <= timestamp_now

\* lines 317-321: erase the marked positions, top of the stack first
RECURSIVE EraseAll(_, _)
EraseAll(list, stack) ==
    IF stack = <<>> THEN list
    ELSE LET top == stack[Len(stack)]
         IN EraseAll(SubSeq(list, 1, top - 1) \o SubSeq(list, top + 1, Len(list)),
                     SubSeq(stack, 1, Len(stack) - 1))

\* lines 307-321: one iteration of the scan, or, at the end of the list,
\* the erase loop
LoopScan ==
    /\ Alive
    /\ th[Loop].pc = "loop_scan"
    /\ IF it > Len(tasks_)
       THEN /\ tasks_' = EraseAll(tasks_, to_remove)
            /\ to_remove' = <<>>
            /\ it' = 1
            /\ th' = [th EXCEPT ![Loop].pc = "loop_cond"]
            /\ UNCHANGED handed
            /\ scan_handed' = <<>>
       ELSE IF IsDue(tasks_[it], now)
            THEN /\ th' = [th EXCEPT ![Loop].pc = "push_check",
                                     ![Loop].val = tasks_[it].func]
                 /\ tasks_' = [tasks_ EXCEPT ![it].func = EmptyFn]
                 /\ handed' = [handed EXCEPT ![tasks_[it].func] = @ + 1]
                 /\ scan_handed' = Append(scan_handed, tasks_[it].func)
                 /\ UNCHANGED <<it, to_remove>>
            ELSE /\ it' = it + 1
                 /\ UNCHANGED <<th, tasks_, to_remove, handed, scan_handed>>
    /\ UNCHANGED <<bufs, break_, pool_break_, event_loop_thread_, threads_,
                   now, added, due, executed, process, popped, discipline>>

\* line 312-313: pool_.AddTask (threadpool.h 70-72: EmplacePush on the
\* pool's buffer), then to_remove.push(it); ++it
LoopAddTask ==
    /\ Alive
    /\ EmplacePush(Loop, PoolQ, "loop_scan")
    /\ IF th'[Loop].pc = "loop_scan"
       THEN /\ to_remove' = Append(to_remove, it)
            /\ it' = it + 1
       ELSE UNCHANGED <<it, to_remove>>
    /\ UNCHANGED <<tasks_, break_, pool_break_, event_loop_thread_, threads_,
                   now, added, due, handed, scan_handed, executed, process, popped,
                   discipline>>

\* --- ThreadPool::Worker
\* threadpool.h line 113: while (!break_ || !tasks_buffer_.Empty())
WorkerCond(w) ==
    /\ Alive
    /\ th[w].pc = "w_cond"
    /\ th' = [th EXCEPT ![w].pc =
                 IF ~pool_break_ \/ ~Empty(bufs[PoolQ])
                 THEN "try_lock" ELSE "done"]
    /\ UNCHANGED <<bufs, schedVars, process, popped, discipline>>

\* threadpool.h line 115
WorkerTryPopFor(w) ==
    /\ Alive
    /\ TryPopFor(w, PoolQ, "w_invoke", "w_cond")
    /\ UNCHANGED <<schedVars, process, popped, discipline>>

\* threadpool.h lines 117-119: std::invoke(task.value()); invoking an empty
\* std::function throws std::bad_function_call on the worker thread
WorkerInvoke(w) ==
    /\ Alive
    /\ th[w].pc = "w_invoke"
    /\ IF th[w].val = EmptyFn
       THEN /\ process' = "terminate: std::bad_function_call"
            /\ UNCHANGED <<th, executed>>
       ELSE /\ executed' = [executed EXCEPT ![th[w].val] = @ + 1]
            /\ th' = [th EXCEPT ![w].pc = "w_cond", ![w].val = EmptyFn]
            /\ UNCHANGED process
    /\ UNCHANGED <<bufs, tasks_, it, to_remove, break_, pool_break_,
                   event_loop_thread_, threads_, now, added, due, handed, scan_handed,
                   popped, discipline>>

\* ------------------------------------------- free-standing buffer clients
\* the single producer: Push(1), Push(2), ...
ProducerCall ==
    /\ Alive
    /\ th[Producer].pc = "p_top"
    /\ bufs[FreeQ].write_counter_ < MaxPush
    /\ th' = [th EXCEPT ![Producer].pc = "push_check",
                        ![Producer].val = bufs[FreeQ].write_counter_ + 1]
    /\ UNCHANGED <<bufs, popped, schedVars, bufClientVars>>

ProducerPush ==
    /\ Alive
    /\ EmplacePush(Producer, FreeQ, "p_top")
    /\ UNCHANGED <<popped, schedVars, bufClientVars>>

\* a consumer calls Pop or TryPopFor
ConsumerCall(c) ==
    /\ Alive
    /\ discipline = "Pop"
    /\ th[c].pc = "c_top"
    /\ \E op \in {"try_lock", "pop_lock"} : th' = [th EXCEPT ![c].pc = op]
    /\ UNCHANGED <<bufs, popped, schedVars, bufClientVars>>

\* the value a consumer returns is recorded under the index it claimed
Log(c) == IF th'[c].pc = "c_got"
          THEN popped' = [popped EXCEPT ![th[c].idx] = th'[c].val]
          ELSE UNCHANGED popped

ConsumerReturn(c) ==
    /\ Alive
    /\ th[c].pc = "c_got"
    /\ th' = [th EXCEPT ![c].pc = "c_top", ![c].val = EmptyFn]
    /\ UNCHANGED <<bufs, popped, schedVars, bufClientVars>>

ConsumerTryPopFor(c) ==
    /\ Alive
    /\ TryPopFor(c, FreeQ, "c_got", "c_top")
    /\ Log(c)
    /\ UNCHANGED <<schedVars, bufClientVars>>

ConsumerPop(c) ==
    /\ Alive
    /\ Pop(c, FreeQ, "c_got")
    /\ Log(c)
    /\ UNCHANGED <<schedVars, bufClientVars>>

\* the single consumer of the PopUnsafe discipline, with or without a
\* preceding Empty() test
ConsumerPopUnsafe(c) ==
    /\ Alive
    /\ discipline = "PopUnsafe"
    /\ c = <<"consumer", 1>>
    /\ th[c].pc = "c_top"
    /\ LET q == bufs[FreeQ]
       IN IF PopUnsafeAborts(q)
          THEN /\ process' = "abort: PopUnsafe on an empty buffer"
               /\ UNCHANGED <<bufs, th, popped>>
          ELSE /\ bufs' = [bufs EXCEPT ![FreeQ] = PopUnsafeBuffer(FreeQ, q)]
               /\ popped' = [popped EXCEPT ![q.read_counter_] = PopUnsafeElement(q)]
               /\ UNCHANGED <<th, process>>
    /\ UNCHANGED <<schedVars, discipline>>

\* ------------------------------------------------------------------ Init
InitThreads(started) ==
    [t \in Threads |->
        IF t = Main THEN [IdleThread(NoTask) EXCEPT !.pc = IF started THEN "none" ELSE "idle"]
        ELSE IF t = Producer /\ started THEN [IdleThread(EmptyFn) EXCEPT !.pc = "p_top"]
        ELSE IF t \in Consumers /\ started THEN [IdleThread(EmptyFn) EXCEPT !.pc = "c_top"]
        ELSE IdleThread(EmptyFn)]

InitCommon ==
    /\ tasks_ = <<>>
    /\ it = 1
    /\ to_remove = <<>>
    /\ break_ = FALSE
    /\ pool_break_ = FALSE
    /\ event_loop_thread_ = FALSE
    /\ threads_ = <<>>
    /\ now = 0
    /\ added = 0
    /\ due = [k \in TaskIds |-> 0]
    /\ handed = [k \in TaskIds |-> 0]
    /\ scan_handed = <<>>
    /\ executed = [k \in TaskIds |-> 0]
    /\ process = "running"
    /\ popped = [k \in 0..(MaxPush - 1) |-> -1]

\* a constructed, idle Scheduler and its controlling thread
Init ==
    /\ InitCommon
    /\ bufs = [b \in BufIds |->
                 NewBuffer(buffer_size, IF b = Ingress THEN NoTask ELSE EmptyFn)]
    /\ th = InitThreads(FALSE)
    /\ discipline = "Pop"

Next ==
    \/ Tick
    \/ Add
    \/ AddPush
    \/ Run
    \/ RunSpawn
    \/ PoolRun
    \/ Shutdown
    \/ SchedulerJoin
    \/ PoolShutdown
    \/ PoolJoin
    \/ LoopCond
    \/ LoopDrain
    \/ LoopScan
    \/ LoopAddTask
    \/ \E w \in Workers : WorkerCond(w)
    \/ \E w \in Workers : WorkerTryPopFor(w)
    \/ \E w \in Workers : WorkerInvoke(w)

Spec == Init /\ [][Next]_vars

\* a free-standing buffer with one producer and its consumers
InitBuf ==
    /\ InitCommon
    /\ \E size \in buffer_size..(buffer_size + 1) :
          bufs = [b \in BufIds |->
                    NewBuffer(IF b = FreeQ THEN size ELSE buffer_size,
                              IF b = Ingress THEN NoTask ELSE EmptyFn)]
    /\ th = InitThreads(TRUE)
    /\ discipline \in {"Pop", "PopUnsafe"}

NextBuf ==
    \/ ProducerCall
    \/ ProducerPush
    \/ \E c \in Consumers : ConsumerCall(c)
    \/ \E c \in Consumers : ConsumerTryPopFor(c)
    \/ \E c \in Consumers : ConsumerPop(c)
    \/ \E c \in Consumers : ConsumerReturn(c)
    \/ \E c \in Consumers : ConsumerPopUnsafe(c)

SpecBuf == InitBuf /\ [][NextBuf]_vars

\* every thread that can take a step eventually takes one
FairSpecBuf ==
    /\ SpecBuf
    /\ WF_vars(ProducerCall \/ ProducerPush)
    /\ \A c \in Consumers :
          WF_vars(ConsumerCall(c) \/ ConsumerTryPopFor(c) \/ ConsumerPop(c)
                  \/ ConsumerReturn(c) \/ ConsumerPopUnsafe(c))

\* the scheduler and the free-standing buffer, each from its own Init
SpecAll == (Init \/ InitBuf) /\ [][Next \/ NextBuf]_vars

\* ================================================================ claims

\* C1 (stated as claimed; the code violates it): with one producer and
\* consumers using Pop / TryPopFor, the value a consumer returns for the
\* logical index it claimed is the value pushed at that index (the producer
\* pushes index i with value i + 1): nothing lost, duplicated or reordered.
C1_FifoExactlyOnce ==
    discipline = "Pop" =>
        \A i \in DOMAIN popped : popped[i] # -1 => popped[i] = i + 1

\* C2: in every reachable state of every buffer,
\* 0 <= write_counter_ - read_counter_ <= max_size_.
C2_CounterBounds ==
    \A b \in BufIds :
        /\ 0 <= bufs[b].write_counter_ - bufs[b].read_counter_
        /\ bufs[b].write_counter_ - bufs[b].read_counter_ <= bufs[b].max_size_

\* C2 witness: the producer is blocked on a full buffer whose counters have
\* already wrapped around the slot array.
C2_Witness ==
    /\ th[Producer].pc = "push_wait"
    /\ bufs[FreeQ].read_counter_ > 0
    /\ bufs[FreeQ].write_counter_ - bufs[FreeQ].read_counter_ = bufs[FreeQ].max_size_

\* C3 (stated as claimed; the code violates it): the producer never writes
\* a slot between a consumer's claim of that slot's index and the
\* consumer's read of the slot.
C3_NoOverwriteBeforeRead ==
    \A b \in BufIds : bufs[b].torn = <<>>

\* C4 (stated as claimed; the code violates it): a producer waiting in Push
\* does not stay blocked once the buffer has room, as long as the process
\* is alive.
C4_PushCompletes ==
    (/\ th[Producer].pc = "push_wait"
     /\ bufs[FreeQ].write_counter_ - bufs[FreeQ].read_counter_ < bufs[FreeQ].max_size_)
    ~> (th[Producer].pc # "push_wait" \/ ~Alive)

\* C5: a task is handed to the pool or executed only once the wall clock
\* has reached its due instant (the clock never runs backwards, so this is
\* a property of every later state as well).
C5_DueTimeRespected ==
    \A k \in TaskIds :
        (handed[k] > 0 \/ executed[k] > 0) => due[k] <= now

\* C5 witness: Shutdown was called while a task was not yet due, and the
\* task has been executed.
C5_Witness ==
    \E k \in TaskIds :
        /\ due[k] > 0
        /\ executed[k] > 0
        /\ th[Main].pc = "sd_join"

\* --- vocabulary of the scheduler claims
PushPcs == {"push_check", "push_snap", "push_wait", "push_write", "push_inc"}

\* the Scheduler state machine: Idle iff no loop thread exists
SchedulerIdle == ~event_loop_thread_

\* nothing is on its way between AddTask and a worker's invoke
PoolQuiet ==
    /\ Empty(bufs[PoolQ])
    /\ th[Loop].pc \notin PushPcs
    /\ \A w \in Workers : th[w].pc \notin {"try_read", "w_invoke"}

\* C6 (stated as claimed; the code violates it): when Shutdown of a Running
\* scheduler returns, every task added so far has been executed, and the
\* ingress buffer, the pending list and the pool queue are empty.
C6_DrainOnShutdown ==
    [][(/\ th[Main].pc = "sd_pjoin"
        /\ th'[Main].pc = "idle"
        /\ threads_ # <<>>)
       => (/\ \A k \in 1..added : executed'[k] >= 1
           /\ Empty(bufs'[Ingress])
           /\ tasks_' = <<>>
           /\ Empty(bufs'[PoolQ]))]_vars

\* C7 (stated as claimed; the code violates it): when every submitted task
\* is due immediately, no task is invoked twice, and a task handed to the
\* pool has been invoked once the pool has nothing in flight.
C7_ExactlyOnce ==
    (\A k \in 1..added : due[k] = 0) =>
        \A k \in TaskIds :
            /\ executed[k] <= 1
            /\ (handed[k] > 0 /\ PoolQuiet) => executed[k] = 1

\* C8: restart.  Whenever the controlling thread is between calls and the
\* scheduler is Idle, everything but the counters' offset, the stop flags
\* and the slots outside the (empty) queue windows is as constructed;
\* Run overwrites both flags before any thread reads them, and a Running
\* scheduler has one loop thread and threads_count joinable workers.
C8_RestartLikeFresh ==
    /\ (th[Main].pc = "idle" /\ SchedulerIdle) =>
          /\ threads_ = <<>>
          /\ tasks_ = <<>> /\ it = 1 /\ to_remove = <<>>
          /\ \A t \in Workers \cup {Loop} : th[t] = IdleThread(EmptyFn)
          /\ th[Main] = [IdleThread(NoTask) EXCEPT !.pc = "idle"]
          /\ Empty(bufs[PoolQ])
          /\ \A b \in {Ingress, PoolQ} :
                /\ bufs[b].mutex_read_ = Free
                /\ bufs[b].claim = -1
                /\ bufs[b].torn = <<>>
                /\ bufs[b].max_size_ = buffer_size
          /\ \A k \in DOMAIN Window(bufs[Ingress]) :
                Window(bufs[Ingress])[k].func = added - Len(Window(bufs[Ingress])) + k
    /\ (th[Main].pc = "run_pool") => (~break_ /\ event_loop_thread_ /\ threads_ = <<>>)
    /\ (th[Main].pc = "idle" /\ ~SchedulerIdle) =>
          /\ ~break_ /\ ~pool_break_
          /\ Len(threads_) = threads_count
          /\ \A i \in DOMAIN threads_ :
                threads_[i] = [worker |-> WorkerId(i), joinable |-> TRUE]

\* C8 witness: Run is in progress on a scheduler that has already executed
\* a task in an earlier, completed Run/Shutdown cycle, and a task added
\* after that cycle is waiting.
C8_Witness ==
    /\ th[Main].pc = "run_pool"
    /\ executed[1] = 1
    /\ added = 2 /\ executed[2] = 0
    /\ bufs[Ingress].write_counter_ = 2

\* C9 (stated as claimed; the code violates it): Run called on a Running
\* scheduler leaves the process alive with one loop thread and
\* threads_count workers.
C9_RunWhileRunning ==
    [][(th[Main].pc = "run_spawn" /\ event_loop_thread_)
       => (/\ process' = "running"
           /\ event_loop_thread_'
           /\ Len(threads_') = threads_count)]_vars

\* C10: Shutdown on an Idle scheduler never blocks, and none of its steps
\* changes anything but the two stop flags and the caller's position: no
\* thread is started or joined, the process stays alive, and the ingress
\* buffer, the pending list, the pool queue and the record of executed
\* tasks are unchanged.
ShutdownStep == Shutdown \/ SchedulerJoin \/ PoolShutdown \/ PoolJoin

C10_ShutdownIdleNoOp ==
    /\ [](SchedulerIdle /\ threads_ = <<>> /\ Alive
          /\ th[Main].pc \in {"sd_join", "sd_pool", "sd_pjoin"}
          => ENABLED (SchedulerJoin \/ PoolShutdown \/ PoolJoin))
    /\ [][(SchedulerIdle /\ threads_ = <<>> /\ ShutdownStep)
          => (/\ UNCHANGED <<bufs, tasks_, it, to_remove, event_loop_thread_,
                             threads_, executed, handed, process>>
              /\ \A t \in Threads \ {Main} : th'[t] = th[t]
              /\ th'[Main].pc \in {"sd_join", "sd_pool", "sd_pjoin", "idle"})]_vars

\* C10 witness: a task was added to a scheduler that is Idle, Shutdown has
\* run up to its last step, and the task is still in the ingress buffer.
C10_Witness ==
    /\ SchedulerIdle /\ threads_ = <<>>
    /\ th[Main].pc = "sd_pjoin"
    /\ ~Empty(bufs[Ingress])
    /\ \A k \in TaskIds : executed[k] = 0

\* C11: a PopUnsafe call on an empty buffer (read_counter_ >= write_counter_)
\* aborts the process, returns nothing and leaves the buffer as it was; on
\* a non-empty buffer it returns the element of slot read_counter_ mod C
\* and advances read_counter_ by exactly one, write_counter_ untouched.
C11_PopUnsafeContract ==
    [][(\E c \in Consumers : ConsumerPopUnsafe(c))
       => LET q == bufs[FreeQ]
          IN IF q.read_counter_ >= q.write_counter_
             THEN /\ process' = "abort: PopUnsafe on an empty buffer"
                  /\ bufs' = bufs
                  /\ popped' = popped
             ELSE /\ process' = "running"
                  /\ popped' = [popped EXCEPT ![q.read_counter_] =
                                   q.buf_[q.read_counter_ % q.max_size_]]
                  /\ bufs'[FreeQ].read_counter_ = q.read_counter_ + 1
                  /\ bufs'[FreeQ].write_counter_ = q.write_counter_]_vars

\* C11 witness: PopUnsafe has returned items, the last one from a slot
\* reached after wrap-around, and a further call on the emptied buffer
\* aborted the process.
C11_Witness ==
    /\ discipline = "PopUnsafe"
    /\ process = "abort: PopUnsafe on an empty buffer"
    /\ bufs[FreeQ].read_counter_ > bufs[FreeQ].max_size_
    /\ \A i \in 0..(bufs[FreeQ].read_counter_ - 1) : popped[i] = i + 1

\* C12 (stated as claimed; the code violates its last part): a TryPopFor
\* call returns "no value" only when the lock is owned by another thread
\* or when, under the lock, the buffer is empty, and then it changes
\* nothing but the lock, which is free again on return; on a non-empty
\* buffer it advances read_counter_ by one and returns the oldest
\* unconsumed item (the value pushed at the index it claimed; the producer
\* pushes index i with value i + 1), releasing the lock.
C12_TryPopForContract ==
    [][\A c \in Consumers :
         LET q == bufs[FreeQ]
         IN /\ (th[c].pc = "try_lock" /\ th'[c].pc = "c_top")
                  => (q.mutex_read_ \notin {Free, c} /\ bufs' = bufs)
            /\ (th[c].pc = "try_check" /\ th'[c].pc = "c_top")
                  => (/\ q.read_counter_ >= q.write_counter_
                      /\ bufs' = [bufs EXCEPT ![FreeQ].mutex_read_ = Free])
            /\ (th[c].pc = "try_check" /\ th'[c].pc # "try_check")
                  => (/\ q.mutex_read_ = c
                      /\ (q.read_counter_ < q.write_counter_) = (th'[c].pc = "try_read"))
            /\ (th[c].pc = "try_check" /\ th'[c].pc = "try_read")
                  => (/\ bufs'[FreeQ].read_counter_ = q.read_counter_ + 1
                      /\ bufs'[FreeQ].write_counter_ = q.write_counter_
                      /\ bufs'[FreeQ].buf_ = q.buf_
                      /\ th'[c].idx = q.read_counter_)
            /\ (th[c].pc = "try_read" /\ th'[c].pc = "c_got")
                  => (/\ th'[c].val = th[c].idx + 1
                      /\ bufs'[FreeQ].mutex_read_ = Free
                      /\ bufs'[FreeQ].read_counter_ = q.read_counter_
                      /\ bufs'[FreeQ].write_counter_ = q.write_counter_)]_vars

\* C13: the loop thread leaves its loop only when the stop flag is set, the
\* pending list is empty and the ingress buffer is empty; so when the join
\* of the loop thread in Shutdown returns, every task added so far has been
\* handed to the pool, none before the clock reached its due instant, and
\* the clock has reached the due instant of each of them.
C13_LoopExit ==
    /\ [][(th[Loop].pc = "loop_cond" /\ th'[Loop].pc = "done")
          => (break_ /\ tasks_ = <<>> /\ Empty(bufs[Ingress]))]_vars
    /\ [][(th[Main].pc = "sd_join" /\ th'[Main].pc = "sd_pool" /\ event_loop_thread_)
          => \A k \in 1..added : handed[k] = 1 /\ due[k] <= now]_vars

\* C13 witness: Shutdown has set the stop flag and waits for the loop
\* thread, which is about to test its condition while the only thing that
\* keeps it running is a pending task that is not yet due.
C13_Witness ==
    /\ th[Main].pc = "sd_join"
    /\ th[Loop].pc = "loop_cond"
    /\ break_
    /\ Empty(bufs[Ingress])
    /\ Len(tasks_) = 1
    /\ tasks_[1].timestamp > now
    /\ tasks_[1].func # EmptyFn

\* C14: the tasks handed to the pool within one scan are handed in reverse
\* order of their arrival from the ingress buffer (task ids count arrivals,
\* so the ids handed in a scan strictly decrease), and one loop iteration
\* drains at most one task from the ingress buffer: only the drain step of
\* the loop advances the ingress read_counter_, by at most one, and the
\* loop then goes on to the scan.
C14_ReverseDispatch ==
    /\ [](\A i, j \in DOMAIN scan_handed :
              i < j => scan_handed[i] > scan_handed[j])
    /\ [][bufs'[Ingress].read_counter_ # bufs[Ingress].read_counter_
          => (/\ th[Loop].pc = "loop_drain"
              /\ th'[Loop].pc = "loop_scan"
              /\ bufs'[Ingress].read_counter_ = bufs[Ingress].read_counter_ + 1
              /\ tasks_'[1] = bufs[Ingress].buf_[bufs[Ingress].read_counter_
                                                 % bufs[Ingress].max_size_]
              /\ Len(tasks_') = Len(tasks_) + 1)]_vars

\* C14 witness: two tasks were found due in the same scan; the one that
\* arrived second has been handed first and the one that arrived first is
\* being pushed to the pool queue.
C14_Witness ==
    /\ scan_handed = <<2, 1>>
    /\ to_remove = <<1>>
    /\ it = 2
    /\ th[Loop].pc = "push_write"
    /\ th[Loop].val = 1

\* --- where a task is: the number of places that hold task k
Holders(k) ==
    LET ingress == Window(bufs[Ingress])
        pool == Window(bufs[PoolQ])
        q == bufs[PoolQ]
    IN  (IF th[Main].val.func = k THEN 1 ELSE 0)
      + Cardinality({i \in DOMAIN ingress : ingress[i].func = k})
      + Cardinality({i \in DOMAIN tasks_ : tasks_[i].func = k})
      + (IF th[Loop].val = k THEN 1 ELSE 0)
      + Cardinality({i \in DOMAIN pool : pool[i] = k})
      + (IF q.claim # -1 /\ q.buf_[q.claim % q.max_size_] = k THEN 1 ELSE 0)
      + Cardinality({w \in Workers : th[w].val = k})
      + executed[k]

\* C15 (stated as claimed; the code violates its last part): the loop hands
\* a task to the pool at most once, and has handed it once the loop has
\* exited; between scans the pending list holds no forwarded task; a scan
\* step over a task that is not due leaves the list unchanged; and every
\* task added so far is held by exactly one of: the Add in progress, the
\* ingress buffer, the pending list, the AddTask in progress, the pool
\* queue, a worker executing it, or the record of executed tasks.
C15_HandoffOnce ==
    /\ [](\A k \in TaskIds : handed[k] <= 1)
    /\ [](th[Loop].pc = "done" => \A k \in 1..added : handed[k] = 1)
    /\ [](th[Loop].pc \in {"loop_cond", "loop_drain", "done", "none"}
             => \A i \in DOMAIN tasks_ : tasks_[i].func # EmptyFn)
    /\ [][(th[Loop].pc = "loop_scan" /\ it <= Len(tasks_)
              /\ tasks_[it].timestamp > now)
          => tasks_' = tasks_]_vars
    /\ [](\A k \in 1..added : Holders(k) = 1)

\* C16 (stated as claimed; the code violates its second part): a worker
\* leaves its loop only when the pool's stop flag is set and the pool queue
\* is empty; and when ThreadPool::Shutdown returns, every callable handed
\* to AddTask has been executed, the pool queue is empty and threads_ is
\* empty.
C16_WorkerExit ==
    /\ [][\A w \in Workers :
            (th[w].pc = "w_cond" /\ th'[w].pc = "done")
               => (pool_break_ /\ Empty(bufs[PoolQ]))]_vars
    /\ [][(th[Main].pc = "sd_pjoin" /\ th'[Main].pc = "idle")
          => (/\ threads_' = <<>>
              /\ Empty(bufs'[PoolQ])
              /\ \A w \in Workers : th'[w].pc = "none"
              /\ \A k \in TaskIds : handed[k] >= 1 => executed'[k] >= 1)]_vars

\* a consumer is inside the section guarded by mutex_read_
InClaimSection(c) ==
    th[c].pc \in {"try_check", "try_read", "pop_check", "pop_snap",
                  "pop_wait", "pop_claim", "pop_read"}

\* C17 (stated as claimed; the code violates the part on the item returned):
\* at most one consumer is inside the claim section and it owns the lock;
\* no logical index is returned twice; a Pop that found the buffer empty
\* waits, holding the lock, with read_counter_ at the index it will claim,
\* and goes on only after the producer has pushed; a TryPopFor that moves
\* while a Pop is waiting returns no value and changes nothing; and the
\* Pop then returns the item pushed at the index it claimed.
C17_ConsumerExclusion ==
    /\ [](\A c, d \in Consumers :
             /\ (InClaimSection(c) /\ InClaimSection(d)) => c = d
             /\ InClaimSection(c) => bufs[FreeQ].mutex_read_ = c)
    /\ [][\A c \in Consumers :
            (th[c].pc # "c_got" /\ th'[c].pc = "c_got")
               => popped[th[c].idx] = -1]_vars
    /\ [](\A c \in Consumers :
             th[c].pc = "pop_wait"
                => (/\ bufs[FreeQ].read_counter_ = th[c].snap
                    /\ bufs[FreeQ].write_counter_ >= th[c].snap))
    /\ [][\A c \in Consumers :
            (th[c].pc = "pop_wait" /\ th'[c].pc # "pop_wait")
               => (/\ bufs[FreeQ].write_counter_ > th[c].snap
                   /\ th'[c].pc = "pop_claim"
                   /\ bufs' = bufs)]_vars
    /\ [][\A c, d \in Consumers :
            (th[c].pc = "pop_wait" /\ th[d].pc = "try_lock" /\ th'[d] # th[d])
               => (th'[d].pc = "c_top" /\ bufs' = bufs /\ popped' = popped)]_vars
    /\ [][\A c \in Consumers :
            (th[c].pc = "pop_read" /\ th'[c].pc = "c_got")
               => th'[c].val = th[c].idx + 1]_vars

\* the scheduler under fair scheduling: the clock advances, and the loop
\* thread, every worker and a Shutdown or Add or Run in progress each take
\* their next step when they can; calls are made at the caller's discretion
FairSpec ==
    /\ Spec
    /\ WF_vars(Tick)
    /\ WF_vars(AddPush \/ RunSpawn \/ PoolRun \/ SchedulerJoin \/ PoolShutdown \/ PoolJoin)
    /\ WF_vars(LoopCond \/ LoopDrain \/ LoopScan \/ LoopAddTask)
    /\ \A w \in Workers :
          WF_vars(WorkerCond(w) \/ WorkerTryPopFor(w) \/ WorkerInvoke(w))

\* C18 (stated as claimed; the code violates it): a Shutdown called on a
\* Running scheduler returns, unless the process has died before.
C18_ShutdownReturns ==
    (th[Main].pc = "sd_join" /\ event_loop_thread_)
    ~> (th[Main].pc = "idle" \/ ~Alive)

\* C19: in the Scheduler the abort of PopUnsafe is never reached: across
\* Add, Run, Shutdown and restart the ingress read_counter_ is advanced
\* only by the loop thread's drain step, by one, in a state with
\* read_counter_ < write_counter_, and nobody takes the ingress buffer's
\* consumer lock.
C19_NoAbortInScheduler ==
    /\ [](process # "abort: PopUnsafe on an empty buffer")
    /\ [](bufs[Ingress].mutex_read_ = Free /\ bufs[Ingress].claim = -1)
    /\ [][bufs'[Ingress].read_counter_ # bufs[Ingress].read_counter_
          => (/\ th[Loop].pc = "loop_drain"
              /\ th'[Main] = th[Main]
              /\ \A w \in Workers : th'[w] = th[w]
              /\ bufs[Ingress].read_counter_ < bufs[Ingress].write_counter_)]_vars

\* C19 witness: the loop thread has just drained the first task with
\* PopUnsafe, leaving its slot moved-from, while the controlling thread is
\* about to write the next task into the ingress buffer.
C19_Witness ==
    /\ th[Loop].pc = "loop_scan"
    /\ it = 1
    /\ tasks_ # <<>>
    /\ tasks_[1].func = 1
    /\ bufs[Ingress].read_counter_ = 1
    /\ bufs[Ingress].buf_[0].func = EmptyFn
    /\ th[Main].pc = "push_write"
    /\ Alive

\* C20: Add never drops or overwrites a task and holds the caller back
\* while the ingress buffer is full.  Add writes a slot only when fewer
\* than max_size_ tasks are unconsumed, no ingress slot is ever written
\* under a reader, and when Add returns its task is the newest element of
\* the ingress buffer, the older ones untouched.  On an Idle scheduler an
\* Add that meets a full ingress buffer never gets past its wait: the
\* caller stays inside Add, so it never reaches Run, and no thread is
\* started.
C20_AddBackpressure ==
    /\ [][(th[Main].pc = "push_write" /\ th'[Main].pc = "push_inc")
          => (bufs[Ingress].write_counter_ - bufs[Ingress].read_counter_
                 < bufs[Ingress].max_size_)]_vars
    /\ [](bufs[Ingress].torn = <<>>)
    /\ [][(th[Main].pc = "push_inc" /\ th'[Main].pc = "idle")
          => Window(bufs'[Ingress]) = Append(Window(bufs[Ingress]), th[Main].val)]_vars
    /\ [][(/\ SchedulerIdle
           /\ th[Main].pc \in {"push_check", "push_snap", "push_wait"}
           /\ bufs[Ingress].write_counter_ - bufs[Ingress].read_counter_
                 = bufs[Ingress].max_size_)
          => (/\ th'[Main].pc \in {"push_check", "push_snap", "push_wait"}
              /\ bufs' = bufs
              /\ SchedulerIdle')]_vars
    /\ [](SchedulerIdle /\ th[Main].pc = "push_wait" => ~ENABLED AddPush)

\* C20 witness: Run was never called, the ingress buffer holds buffer_size
\* tasks, and the caller is blocked inside the next Add.
C20_Witness ==
    /\ SchedulerIdle
    /\ threads_ = <<>>
    /\ added = buffer_size + 1
    /\ bufs[Ingress].read_counter_ = 0
    /\ bufs[Ingress].write_counter_ = buffer_size
    /\ th[Main].pc = "push_wait"
    /\ th[Main].val.func = buffer_size + 1

====
